---- MODULE Spec2Model ----
\* GitGutterHandler (git_gutter_handler.py): the unified-diff hunk parser
\* (process_diff, process_diff_line_change) and the asynchronous pipeline
\* update_git_file -> run_diff -> decode_diff -> parser built on run_command.
EXTENDS Integers, Sequences, FiniteSets, TLC

\* ---------------------------------------------------------------- bounds
MaxHunks == 3      \* hunks of a generated zero-context diff
MaxGap == 2        \* unchanged lines between two generated hunks
MaxCount == 2      \* largest old/new line count of a generated hunk
MaxLine == 6       \* lines of the two files of a generated diff
MaxJunk == 2       \* lines of a generated text without hunk headers
MaxBytes == 3      \* bytes of an output handed to decode_diff
MaxBindingReq == 1  \* requests issued while the file system changes
MaxReq == 2        \* diff requests issued on one binding
StartTime == 6     \* time.time() when the binding is constructed
MaxTicks == 6      \* seconds the clock advances

\* Python's None (line numbers and counts are >= -1, so -2 is free)
None == -2

\* ------------------------------------------------------- text and numbers
\* A text is a sequence of lines, a line a sequence of one-character strings.
DigitSeq == <<"0", "1", "2", "3", "4", "5", "6", "7", "8", "9">>

DigitChars == {DigitSeq[i] : i \in 1..10}

DigitVal(c) == (CHOOSE i \in 1..10 : DigitSeq[i] = c) - 1

\* int(s) for a non-empty run of decimal digits
RECURSIVE ParseInt(_)
ParseInt(ds) ==
    IF ds = <<>> THEN 0
    ELSE 10 * ParseInt(SubSeq(ds, 1, Len(ds) - 1)) + DigitVal(ds[Len(ds)])

\* the decimal rendering git prints for a line number or count
RECURSIVE Decimal(_)
Decimal(n) ==
    IF n < 10 THEN <<DigitSeq[n + 1]>>
    ELSE Decimal(n \div 10) \o <<DigitSeq[(n % 10) + 1]>>

\* range(a, b) as a list
Range(a, b) == [i \in 1..(IF b > a THEN b - a ELSE 0) |-> a + i - 1]

\* ------------------------------------------------------------ the regex
\* hunk_re = '^@@ \-(\d+),?(\d*) \+(\d+),?(\d*) @@'
RECURSIVE DigitRunEnd(_, _)
DigitRunEnd(line, pos) ==
    IF pos <= Len(line) /\ line[pos] \in DigitChars
    THEN DigitRunEnd(line, pos + 1)
    ELSE pos - 1

HasLit(line, pos, lit) ==
    /\ pos + Len(lit) - 1 <= Len(line)
    /\ SubSeq(line, pos, pos + Len(lit) - 1) = lit

NoGroup == [ok |-> FALSE, grp |-> <<>>, next |-> 0]

\* a plausible slip: the pattern stops after the count, so that whatever
\* follows it is accepted
OptCount_unanchored(line, pos, follow) ==
    IF HasLit(line, pos, <<",">>)
    THEN LET e == DigitRunEnd(line, pos + 1)
         IN  [ok |-> TRUE, grp |-> SubSeq(line, pos + 1, e),
              next |-> e + 1 + Len(follow)]
    ELSE [ok |-> TRUE, grp |-> <<>>, next |-> pos + Len(follow)]

\* ',?(\d*)' followed by the literal `follow`, tried at pos, which is the
\* first position after a maximal digit run.  The greedy choice is the only
\* one that can succeed: a shorter (\d+) leaves a digit where `follow` starts.
OptCount(line, pos, follow) ==
    IF HasLit(line, pos, <<",">>)
    THEN LET e == DigitRunEnd(line, pos + 1)
         IN  IF HasLit(line, e + 1, follow)
             THEN [ok |-> TRUE, grp |-> SubSeq(line, pos + 1, e),
                   next |-> e + 1 + Len(follow)]
             ELSE NoGroup
    ELSE IF HasLit(line, pos, follow)
         THEN [ok |-> TRUE, grp |-> <<>>, next |-> pos + Len(follow)]
         ELSE NoGroup

NoMatch == [ok |-> FALSE, g1 |-> <<>>, g2 |-> <<>>, g3 |-> <<>>, g4 |-> <<>>]

\* the match of hunk_re at the start of one line, with its four groups
hunk_re(line) ==
    IF ~HasLit(line, 1, <<"@", "@", " ", "-">>) THEN NoMatch
    ELSE LET e1 == DigitRunEnd(line, 5)
         IN  IF e1 < 5 THEN NoMatch
             ELSE LET c1 == OptCount(line, e1 + 1, <<" ", "+">>)
                  IN  IF ~c1.ok THEN NoMatch
                      ELSE LET e3 == DigitRunEnd(line, c1.next)
                           IN  IF e3 < c1.next THEN NoMatch
                               ELSE LET c2 == OptCount(line, e3 + 1,
                                                       <<" ", "@", "@">>)
                                    IN  IF ~c2.ok THEN NoMatch
                                        ELSE [ok |-> TRUE,
                                              g1 |-> SubSeq(line, 5, e1),
                                              g2 |-> c1.grp,
                                              g3 |-> SubSeq(line, c1.next, e3),
                                              g4 |-> c2.grp]

\* re.finditer(hunk_re, diff_str, re.MULTILINE): the matches in text order,
\* each with the index of its line (hunk.start()) and its groups
RECURSIVE finditer(_, _)
finditer(diff_str, i) ==
    IF i > Len(diff_str) THEN <<>>
    ELSE LET m == hunk_re(diff_str[i])
         IN  (IF m.ok THEN <<[pos |-> i, g2 |-> m.g2, g3 |-> m.g3, g4 |-> m.g4]>>
              ELSE <<>>) \o finditer(diff_str, i + 1)

\* a plausible slip: int(group or 0)
IntOr0(grp) == IF grp = <<>> THEN 0 ELSE ParseInt(grp)

\* int(group or 1)
IntOr1(grp) == IF grp = <<>> THEN 1 ELSE ParseInt(grp)

\* ------------------------------------------------------------ process_diff
EmptyDiff == [inserted |-> <<>>, modified |-> <<>>, deleted |-> <<>>]

\* a plausible slip: deleted += [start]
deleted_line_at_start(start) == start

\* the line a pure deletion is anchored at: deleted += [start + 1]
deleted_line(start) == start + 1

\* a plausible slip: the three branches tested independently (if/if/else)
classify_hunk_no_elif(acc, start, old_size, new_size) ==
    LET a1 == IF old_size = 0
              THEN [acc EXCEPT !.inserted = @ \o Range(start, start + new_size)]
              ELSE acc
    IN  IF new_size = 0
        THEN [a1 EXCEPT !.deleted = @ \o <<deleted_line(start)>>]
        ELSE [a1 EXCEPT !.modified = @ \o Range(start, start + new_size)]

\* the body of the loop of process_diff
classify_hunk(acc, start, old_size, new_size) ==
    IF old_size = 0
    THEN [acc EXCEPT !.inserted = @ \o Range(start, start + new_size)]
    ELSE IF new_size = 0
         THEN [acc EXCEPT !.deleted = @ \o <<deleted_line(start)>>]
         ELSE [acc EXCEPT !.modified = @ \o Range(start, start + new_size)]

RECURSIVE process_diff_loop(_, _, _)
process_diff_loop(hunks, k, acc) ==
    IF k > Len(hunks) THEN acc
    ELSE LET hunk == hunks[k]
             start == ParseInt(hunk.g3)
             old_size == IntOr1(hunk.g2)
             new_size == IntOr1(hunk.g4)
         IN  process_diff_loop(hunks, k + 1,
                               classify_hunk(acc, start, old_size, new_size))

process_diff(diff_str) == process_diff_loop(finditer(diff_str, 1), 1, EmptyDiff)

\* ------------------------------------------------ process_diff_line_change
\* return ([], -1, -1, {}): the empty meta has every key absent
NoLineChange ==
    [deleted_lines |-> <<>>, start |-> -1, size |-> -1, hunk |-> 0,
     added_lines |-> <<>>, first_change |-> None, next_change |-> None,
     prev_change |-> None]

\* [line[1:] for line in hunk_lines if line.startswith(prefix)]
RECURSIVE strip_prefixed(_, _)
strip_prefixed(hunk_lines, prefix) ==
    IF hunk_lines = <<>> THEN <<>>
    ELSE LET line == Head(hunk_lines)
         IN  (IF Len(line) > 0 /\ line[1] = prefix THEN <<Tail(line)>> ELSE <<>>)
             \o strip_prefixed(Tail(hunk_lines), prefix)

\* a plausible slip: the setting is not consulted
no_wrap_ignored(wrap, change, start) == change

\* "if wrap is disable avoid wrapping": a change that is still None becomes
\* the matched hunk's own start
no_wrap(wrap, change, start) ==
    IF ~wrap /\ change = None THEN start ELSE change

\* a plausible slip: the hunks after the peeked one are not looked at
wrap_prev_to_next(hunks, k, prev_change, next_change, start) ==
    IF prev_change # None THEN prev_change
    ELSE IF next_change # None THEN next_change
    ELSE start

\* "prev -> last hunk": hunks k+2.. are what list(hunks) still yields after
\* next(hunks) took hunk k+1
wrap_prev(hunks, k, prev_change, next_change, start) ==
    IF prev_change # None THEN prev_change
    ELSE IF k + 2 <= Len(hunks) THEN ParseInt(hunks[Len(hunks)].g3)
    ELSE IF next_change # None THEN next_change
    ELSE start

\* "next -> first hunk"
wrap_next(next_change, first_change) ==
    IF next_change = None THEN first_change ELSE next_change

\* The characters str.splitlines ends a line at, besides the "\n" that ends
\* each line of the text: the form feed, standing for "\v", "\x1c".."\x1e",
\* "\x85", "\u2028" and "\u2029" as well.
LineBoundaries == {"\f"}

\* str.splitlines on one line of the text and the "\n" that ends it
RECURSIVE splitline(_)
splitline(line) ==
    IF \A i \in 1..Len(line) : line[i] \notin LineBoundaries THEN <<line>>
    ELSE LET i == CHOOSE j \in 1..Len(line) :
                     /\ line[j] \in LineBoundaries
                     /\ \A m \in 1..(j - 1) : line[m] \notin LineBoundaries
         IN  <<SubSeq(line, 1, i - 1)>> \o splitline(SubSeq(line, i + 1, Len(line)))

\* hunk_content.splitlines()
RECURSIVE splitlines(_)
splitlines(lines) ==
    IF lines = <<>> THEN <<>>
    ELSE splitline(Head(lines)) \o splitlines(Tail(lines))

\* the code after "in the following the line is inside the hunk", for the
\* k-th match
inside_hunk(diff_str, hunks, k, start, size, first_change, prev_change, wrap) ==
    LET has_next == k + 1 <= Len(hunks)
        hunk_end == IF has_next THEN hunks[k + 1].pos ELSE Len(diff_str) + 1
        next0 == IF has_next THEN ParseInt(hunks[k + 1].g3) ELSE None
        prev1 == no_wrap(wrap, prev_change, start)
        next1 == no_wrap(wrap, next0, start)
        prev2 == wrap_prev(hunks, k, prev1, next1, start)
        next2 == wrap_next(next1, first_change)
        hunk_content == SubSeq(diff_str, hunks[k].pos, hunk_end - 1)
        hunk_lines == Tail(splitlines(hunk_content))
    IN  [deleted_lines |-> strip_prefixed(hunk_lines, "-"),
         start |-> start, size |-> size, hunk |-> k,
         added_lines |-> strip_prefixed(hunk_lines, "+"),
         first_change |-> first_change, next_change |-> next2,
         prev_change |-> prev2]

\* "continue if the hunk is before the line"
hunk_before_line(start, size, line_nr) == start + size < line_nr

RECURSIVE line_change_loop(_, _, _, _, _, _, _)
line_change_loop(diff_str, hunks, k, line_nr, first_change, prev_change, wrap) ==
    IF k > Len(hunks) THEN NoLineChange
    ELSE LET hunk == hunks[k]
             start == ParseInt(hunk.g3)
             size == IntOr1(hunk.g4)
             first == IF first_change = None THEN start ELSE first_change
         IN  IF size = 0 /\ line_nr = start + 1
             THEN inside_hunk(diff_str, hunks, k, start, size, first,
                              prev_change, wrap)
             ELSE IF hunk_before_line(start, size, line_nr)
             THEN line_change_loop(diff_str, hunks, k + 1, line_nr, first,
                                   start, wrap)
             ELSE IF line_nr < start THEN NoLineChange
             ELSE inside_hunk(diff_str, hunks, k, start, size, first,
                              prev_change, wrap)

\* `wrap` is settings.get('next_prev_change_wrap', True); the field `hunk` of
\* the result is the index of the matched hunk (0: none), kept for the proofs
process_diff_line_change(line_nr, diff_str, wrap) ==
    line_change_loop(diff_str, finditer(diff_str, 1), 1, line_nr, None, None,
                     wrap)

\* ----------------------------------------------------- diff texts to parse
\* A hunk header as git prints it: '@@ -os[,oc] +ns[,nc] @@'; a count of None
\* is omitted from the text (process_diff's docstring: "Hunk size can be
\* omitted, and defaults to one line").
Count(c) == IF c = None THEN 1 ELSE c

CountText(c) == IF c = None THEN <<>> ELSE <<",">> \o Decimal(c)

Header(h) ==
    <<"@", "@", " ", "-">> \o Decimal(h.os) \o CountText(h.oc)
    \o <<" ", "+">> \o Decimal(h.ns) \o CountText(h.nc) \o <<" ", "@", "@">>

\* the hunk's body: its old lines with '-', then its new lines with '+'
Body(h) ==
    [i \in 1..Count(h.oc) |-> <<"-", "a">>] \o [i \in 1..Count(h.nc) |-> <<"+", "b">>]

RECURSIVE HunksText(_)
HunksText(hs) ==
    IF hs = <<>> THEN <<>>
    ELSE <<Header(Head(hs))>> \o Body(Head(hs)) \o HunksText(Tail(hs))

\* the file header lines git prints before the first hunk
Prelude == << <<"-", "-", "-", " ", "a">>, <<"+", "+", "+", " ", "b">> >>

DiffText(hs) == IF hs = <<>> THEN <<>> ELSE Prelude \o HunksText(hs)

\* a line that starts a hunk
IsHeader(line) == Len(line) >= 2 /\ line[1] = "@" /\ line[2] = "@"

\* the same diff of files whose lines hold a form feed: 'a^L-a' for 'a' and
\* 'b^L+b' for 'b'
FormFeedText(hs) ==
    LET lines == DiffText(hs)
    IN  [i \in 1..Len(lines) |->
            IF i <= Len(Prelude) \/ IsHeader(lines[i]) THEN lines[i]
            ELSE lines[i] \o <<"\f">> \o lines[i]]

\* sequences over S of length 0..n
SeqsUpTo(S, n) == UNION {[1..k -> S] : k \in 0..n}

\* Generated zero-context diffs: each edit replaces o old lines by n new
\* lines after `gap` unchanged lines; git prints a count of 1 by omitting it
\* and a side with count 0 with the line before the hunk as its start.
Edits == {e \in [gap : 0..MaxGap, o : 0..MaxCount, n : 0..MaxCount] : e.o + e.n > 0}

GitCount(c) == IF c = 1 THEN None ELSE c

\* the hunk git prints for edit e after ob old and nb new lines
EditHunk(e, ob, nb) ==
    [os |-> IF e.o = 0 THEN ob + e.gap ELSE ob + e.gap + 1, oc |-> GitCount(e.o),
     ns |-> IF e.n = 0 THEN nb + e.gap ELSE nb + e.gap + 1, nc |-> GitCount(e.n)]

\* the diffs of at most n further hunks of two files of at most MaxLine lines,
\* ob old and nb new lines being behind
RECURSIVE GitDiffsFrom(_, _, _, _)
GitDiffsFrom(n, ob, nb, first) ==
    IF n = 0 THEN {<<>>}
    ELSE {<<>>} \cup UNION {
             {<<EditHunk(e, ob, nb)>> \o rest :
                 rest \in GitDiffsFrom(n - 1, ob + e.gap + e.o, nb + e.gap + e.n,
                                       FALSE)} :
             e \in {x \in Edits : /\ first \/ x.gap >= 1
                                  /\ ob + x.gap + x.o <= MaxLine
                                  /\ nb + x.gap + x.n <= MaxLine}}

GitDiffs == GitDiffsFrom(MaxHunks, 0, 0, TRUE)

\* arbitrary header sequences: any order, overlapping, explicit counts of 1
AnyHunks == [os : {1}, oc : {None} \cup 0..MaxCount, ns : 1..2,
             nc : {None} \cup 0..MaxCount]

AnyDiffs == SeqsUpTo(AnyHunks, 2)

Mod(n) == [os |-> n, oc |-> None, ns |-> n, nc |-> None]

\* the diffs named in process_diff's docstring and the navigation examples
ExampleDiffs ==
    { <<Mod(5), Mod(20), Mod(40)>>,
      <<[os |-> 9, oc |-> None, ns |-> 10, nc |-> 2]>>,
      <<[os |-> 3, oc |-> 2, ns |-> 4, nc |-> 0]>>,
      <<[os |-> 7, oc |-> 2, ns |-> 6, nc |-> 0]>>,
      <<Mod(20), Mod(5)>> }

HunkInputs == GitDiffs \cup AnyDiffs \cup ExampleDiffs

\* lines that do not match hunk_re
JunkLines ==
    { <<>>,
      <<"d", "i", "f", "f">>,
      <<"-", "a">>,
      <<"@", "@", " ", "-", "3", " ", "+", "4">>,
      <<"@", "@", " ", "-", "3", " ", "+", "4", " ", "@">>,
      <<"@", "@", " ", "-", ",", "2", " ", "+", "4", " ", "@", "@">>,
      <<"@", "@", " ", "-", "3", " ", "4", " ", "@", "@">>,
      <<" ", "@", "@", " ", "-", "3", " ", "+", "4", " ", "@", "@">>,
      <<"@", "@", " ", "-", "3", ",", "2", ",", "1", " ", "+", "4", " ", "@", "@">> }

JunkTexts == SeqsUpTo(JunkLines, MaxJunk)

\* the line numbers queried for a diff: the first lines and the lines at,
\* inside and just below each hunk
QueryLines(hs) ==
    0..(MaxLine + 1) \cup {hs[i].ns + d : i \in 1..Len(hs), d \in 0..(MaxCount + 1)}

\* ================================================================ the state
VARIABLES
    now,            \* time.time()
    last_refresh,   \* self._last_refresh_time_git_file
    git_temp_file,  \* self.git_temp_file: "none", "created" or "written"
    buf_temp_file,  \* self.buf_temp_file: "none", "created" or "written"
    git_tracked,    \* self.git_tracked
    host_async,     \* hasattr(sublime, 'set_timeout_async')
    kind,           \* per request: the operation called, "none" before
    pc,             \* per request: where its Promise chain stands
    log,            \* per request: the steps it has taken, in order
    queue,          \* callbacks handed to sublime.set_timeout_async, FIFO
    proc,           \* the process read_output is waiting for, or NoProc
    last_request,   \* when update_git_file was last called, None: not since
                    \* the timestamp was cleared
    contents,       \* the last call of write_file: its request and contents
    results,        \* what the last other command resolved with
    compare_against, \* the target the settings keep for the view
    failed,         \* whether the last Popen raised OSError, which is printed
    alive,          \* FALSE once __del__ has run
    unlinked,       \* per snapshot: what __del__ did with it
    file_name,      \* view.file_name(), NoPath for an unsaved view
    isfile,         \* os.path.isfile(view.file_name())
    markers,        \* the directories that hold a '.git' entry
    view_file_name, \* self._view_file_name
    git_tree,       \* self._git_tree
    git_path,       \* self._git_path
    hunks_in,       \* parser input: the hunks the text was printed from
    text,           \* parser input: diff_str
    ppc,            \* parser: "input", "classified" or "queried"
    line_nr,        \* parser: the queried line
    wrap,           \* settings.get('next_prev_change_wrap', True)
    classified,     \* result of process_diff
    change,         \* result of process_diff_line_change
    encoding,       \* decoder input: view.encoding()
    bytes,          \* decoder input: the output of `git diff`
    dpc,            \* decoder: "input" or "decoded"
    tried,          \* decoder: the decodings attempted, in order
    decoded         \* decoder: what decode_diff returned

hvars == <<now, last_refresh, git_temp_file, buf_temp_file, git_tracked,
           host_async, kind, pc, log, queue, proc, last_request,
           contents, results, compare_against, failed, alive, unlinked>>

tvars == <<file_name, isfile, markers, view_file_name, git_tree, git_path>>

pvars == <<hunks_in, text, ppc, line_nr, wrap, classified, change>>

dvars == <<encoding, bytes, dpc, tried, decoded>>

vars == <<hvars, tvars, pvars, dvars>>

\* git_file_update_interval_secs
git_file_update_interval_secs == 5

Requests == 1..MaxReq

\* the requests of the runs that follow the binding
BindingRequests == 1..MaxBindingReq

NoProc == [req |-> 0, cmd |-> "none"]

NoValue == [req |-> 0, value |-> "none"]

\* ------------------------------------------------------------ the file system
\* A path is the sequence of its components below "/"; None, and the name of
\* a view never saved, is the empty sequence, which like None is not truthy.
NoPath == <<>>

Root == <<"/">>

\* the names a view's file takes: one in a sub-directory of /r, one inside
\* the '.git' directory of /r
FileNames == { <<"/", "r", "s", "f">>, <<"/", "r", ".git", "h">> }

\* the directories a '.git' entry can appear in
Dirs == { <<"/", "r">> }

\* os.path.split: the root splits into itself and an empty name
split(path) ==
    IF path = Root THEN <<Root, "">>
    ELSE <<SubSeq(path, 1, Len(path) - 1), path[Len(path)]>>

\* os.path.relpath(file_path, path) for a path above the file
relpath(file_path, path) == SubSeq(file_path, Len(path) + 1, Len(file_path))

\* is_work_tree(path): path and os.path.exists(os.path.join(path, '.git'))
is_work_tree(path) == path # NoPath /\ path \in markers

\* the loop of split_work_tree, from split(os.path.realpath(file_path)) on;
\* there is no symbolic link in the modelled directories
RECURSIVE split_work_tree_loop(_, _, _)
split_work_tree_loop(file_path, path, name) ==
    IF path = NoPath \/ name = "" \/ name = ".git" THEN <<NoPath, NoPath>>
    ELSE IF is_work_tree(path) THEN <<path, relpath(file_path, path)>>
    ELSE split_work_tree_loop(file_path, split(path)[1], split(path)[2])

\* a plausible slip: the relative path is not returned with the work tree
split_work_tree_no_relpath(file_path) ==
    <<split_work_tree_loop(file_path, split(file_path)[1], split(file_path)[2])[1],
      NoPath>>

\* split_work_tree(file_path): (work tree, relative path) or (None, None)
split_work_tree(file_path) ==
    IF file_path = NoPath THEN <<NoPath, NoPath>>
    ELSE split_work_tree_loop(file_path, split(file_path)[1], split(file_path)[2])

\* __init__
InitHandler ==
    /\ now = StartTime
    /\ last_refresh = 0
    /\ git_temp_file = "none"
    /\ buf_temp_file = "none"
    /\ git_tracked = FALSE
    /\ host_async \in BOOLEAN
    /\ kind = [r \in Requests |-> "none"]
    /\ pc = [r \in Requests |-> "new"]
    /\ log = [r \in Requests |-> <<>>]
    /\ queue = <<>>
    /\ proc = NoProc
    /\ last_request = None
    /\ contents = NoValue
    /\ results = "none"
    /\ compare_against = "HEAD"
    /\ failed = FALSE
    /\ alive = TRUE
    /\ unlinked = [git |-> "no", buf |-> "no"]
    /\ view_file_name = NoPath
    /\ git_tree = NoPath
    /\ git_path = NoPath

\* the view the handler is made for, never saved or showing a file, and the
\* directories of the file system
InitFiles ==
    /\ file_name \in FileNames \cup {NoPath}
    /\ isfile = (file_name # NoPath)
    /\ markers \in SUBSET Dirs

\* a view never saved
UnsavedView ==
    /\ file_name = NoPath
    /\ isfile = FALSE
    /\ markers = {}

\* no text has been parsed
IdleParser ==
    /\ hunks_in = <<>>
    /\ text = <<>>
    /\ ppc = "input"
    /\ line_nr = 0
    /\ wrap = TRUE
    /\ classified = EmptyDiff
    /\ change = NoLineChange

\* no output has been decoded
IdleDecoder ==
    /\ encoding = "UTF-8"
    /\ bytes = <<>>
    /\ dpc = "input"
    /\ tried = <<>>
    /\ decoded = <<>>

\* ------------------------------------------------------------ the pipeline
\* git_time()
git_time == now - last_refresh

\* tmp_file() on first use
created(file) == IF file = "none" THEN "created" ELSE file

\* Without set_timeout_async run_async calls read_output itself, so the
\* caller's thread does nothing else until the command has been read.
MainThreadFree == host_async \/ (queue = <<>> /\ proc = NoProc)

\* the handler's methods are called on a handler that exists, from the
\* thread of the commands
Callable == alive /\ MainThreadFree

\* Promise.then: a continuation attached to a resolved Promise runs at once,
\* one attached to a pending Promise runs when it is resolved
then_runs(resolved) == IF resolved THEN "now" ELSE "on_resolve"

\* a plausible slip: update_git_file returns Promise.resolve() on both paths
update_git_file_never_pending(spawns) == TRUE

\* whether the Promise update_git_file returns is already resolved:
\* run_command(...).then(write_file) when it spawns, Promise.resolve() if not
update_git_file_resolved(spawns) == ~spawns

\* the steps of run_diff, for the log of a request of the given kind
run_diff_steps == <<"update_buf_file", "diff_requested">>

\* What a process writes to stdout: nothing, text that is UTF-8, or bytes
\* that are not UTF-8.
Stdouts == {"empty", "text", "bytes"}

\* run_command's `decode`: False for `git show` and `git diff`, else the
\* default True
decode(cmd) == cmd \notin {"show", "diff"}

\* an argument list with a None in it: git_file_commits puts self._git_path
\* last, and Popen raises TypeError on it
has_none(cmd) == cmd = "log -- None"

\* a plausible slip: the OSError handler does not bind stdout
oserror_stdout_unbound == "unbound"

\* "except OSError: stdout = b''"
oserror_stdout == "empty"

\* The `finally` of read_output: whether resolve is called with an "empty"
\* value or with "data", or "raises" when it is not called: stdout is
\* unbound after an exception no handler caught, or stdout.decode('utf-8')
\* raises UnicodeDecodeError. strip() leaves text that is not blank.
finally_resolves(dec, stdout) ==
    IF stdout = "unbound" THEN "raises"
    ELSE IF dec /\ stdout = "bytes" THEN "raises"
    ELSE IF stdout = "empty" THEN "empty"
    ELSE "data"

\* a plausible slip: git_tracked is only ever set
bool_or_tracked(c) == git_tracked \/ c # "empty"

\* bool(contents) of write_file
bool(c) == c # "empty"

\* diff_str() for request r, called by diff() or diff_line_change()
diff_str(r) ==
    LET spawns == git_time > git_file_update_interval_secs
        show == IF spawns THEN <<[req |-> r, cmd |-> "show"]>> ELSE <<>>
        runs_now == then_runs(update_git_file_resolved(spawns)) = "now"
    IN  /\ git_temp_file' = IF spawns THEN created(git_temp_file) ELSE git_temp_file
        /\ last_request' = now
        /\ buf_temp_file' = IF runs_now THEN "written" ELSE buf_temp_file
        /\ queue' = queue \o show
                    \o (IF runs_now THEN <<[req |-> r, cmd |-> "diff"]>> ELSE <<>>)
        /\ pc' = [pc EXCEPT ![r] = IF spawns THEN "refresh" ELSE "diffing"]
        /\ log' = [log EXCEPT ![r] =
                     (IF spawns THEN <<"show_requested">> ELSE <<"refresh_skipped">>)
                     \o (IF runs_now THEN run_diff_steps ELSE <<>>)]
        /\ UNCHANGED <<now, last_refresh, git_tracked, host_async, proc,
                       contents, results, compare_against, failed, alive, unlinked>>

\* requests are numbered in the order they are issued
NextRequest(r) == pc[r] = "new" /\ \A q \in Requests : q < r => pc[q] # "new"

\* diff(): diff_str().then(process_diff)
diff(r) ==
    /\ Callable
    /\ NextRequest(r)
    /\ kind' = [kind EXCEPT ![r] = "diff"]
    /\ diff_str(r)
    /\ UNCHANGED <<tvars, pvars, dvars>>

\* diff_line_change(line): diff_str().then(process_diff_line_change)
diff_line_change(r) ==
    /\ Callable
    /\ NextRequest(r)
    /\ kind' = [kind EXCEPT ![r] = "line"]
    /\ diff_str(r)
    /\ UNCHANGED <<tvars, pvars, dvars>>

\* run_command(args) of a query: run_async schedules read_output
run_command(r, args) ==
    /\ queue' = Append(queue, [req |-> r, cmd |-> args])
    /\ pc' = [pc EXCEPT ![r] = "querying"]
    /\ log' = [log EXCEPT ![r] = <<"run_command">>]

\* handle_files(additional_args), called by untracked() and ignored():
\* `git ls-files` in a work tree, else Promise.resolve(False)
handle_files(r) ==
    /\ IF git_tree # NoPath
       THEN run_command(r, "ls-files")
       ELSE /\ pc' = [pc EXCEPT ![r] = "done"]
            /\ log' = [log EXCEPT ![r] = <<"resolve_false">>]
            /\ UNCHANGED queue

\* The queries: untracked() stands for ignored() too, which differs in an
\* argument of `git ls-files`; git_commits() for git_branches(), git_tags()
\* and git_current_branch(), which like it return run_command(args) for
\* arguments that are constants.
Queries == {"untracked", "git_commits", "git_file_commits"}

\* untracked(), git_commits(), git_file_commits()
query(r, k) ==
    /\ Callable
    /\ NextRequest(r)
    /\ kind' = [kind EXCEPT ![r] = k]
    /\ CASE k = "untracked" -> handle_files(r)
         [] k = "git_commits" -> run_command(r, "log")
         [] k = "git_file_commits" ->
                run_command(r, IF git_path = NoPath THEN "log -- None"
                               ELSE "log -- path")
    /\ UNCHANGED <<now, last_refresh, git_temp_file, buf_temp_file, git_tracked,
                   host_async, proc, last_request, contents, results,
                   compare_against, failed, alive, unlinked>>
    /\ UNCHANGED <<tvars, pvars, dvars>>

\* resolve(stdout) at the end of read_output for the job taken from the
\* queue, whose rest is q, the requests' logs being lg: the Promise's
\* continuations run before resolve returns.
\*   git show: write_file, then run_diff (update_buf_file, run_command)
\*   git diff: decode_diff, then the parser of the request
\*   a query:  the caller's continuation
\* When the `finally` raises, resolve is not called and the Promise stays
\* pending; the host reports the exception and runs the next callback.
resolve(job, stdout, q, lg) ==
    LET r == job.req
        value == finally_resolves(decode(job.cmd), stdout)
        runs_diff == job.cmd = "show"
                     /\ then_runs(update_git_file_resolved(TRUE)) = "on_resolve"
    IN  IF value = "raises"
        THEN /\ queue' = q
             /\ log' = lg
             /\ UNCHANGED <<git_tracked, git_temp_file, buf_temp_file, pc,
                            contents, results>>
        ELSE /\ git_tracked' = IF job.cmd = "show" THEN bool(value) ELSE git_tracked
             /\ git_temp_file' = IF job.cmd = "show" THEN "written" ELSE git_temp_file
             /\ buf_temp_file' = IF runs_diff THEN "written" ELSE buf_temp_file
             /\ queue' = q \o (IF runs_diff THEN <<[req |-> r, cmd |-> "diff"]>>
                               ELSE <<>>)
             /\ contents' = IF job.cmd = "show" THEN [req |-> r, value |-> value]
                            ELSE contents
             /\ results' = IF job.cmd = "show" THEN results
                           ELSE value
             /\ pc' = [pc EXCEPT ![r] =
                         IF job.cmd # "show" THEN "done"
                         ELSE IF runs_diff THEN "diffing" ELSE @]
             /\ log' = [lg EXCEPT ![r] =
                          IF job.cmd = "show"
                          THEN @ \o <<"write_file">>
                                 \o (IF runs_diff THEN run_diff_steps ELSE <<>>)
                          ELSE IF job.cmd = "diff"
                          THEN @ \o <<"decode_diff",
                                      IF kind[r] = "diff" THEN "process_diff"
                                      ELSE "process_diff_line_change">>
                          ELSE @ \o <<"resolved">>]

\* read_output up to Popen: the oldest scheduled callback runs. A TypeError
\* (a None among the arguments) leaves stdout unbound, an OSError is
\* printed and makes stdout empty, and the `finally` runs at once.
Popen(ok) ==
    /\ queue # <<>>
    /\ proc = NoProc
    /\ LET job == Head(queue)
           called == [log EXCEPT ![job.req] = @ \o <<"popen_" \o job.cmd>>]
       IN  IF has_none(job.cmd)
           THEN /\ proc' = NoProc
                /\ resolve(job, "unbound", Tail(queue), called)
           ELSE IF ok
           THEN /\ proc' = job
                /\ queue' = Tail(queue)
                /\ log' = called
                /\ UNCHANGED <<git_tracked, git_temp_file, buf_temp_file, pc,
                               contents, results>>
           ELSE /\ proc' = NoProc
                /\ resolve(job, oserror_stdout, Tail(queue), called)
    /\ failed' = (~ok /\ ~has_none(Head(queue).cmd))
    /\ UNCHANGED <<now, last_refresh, host_async, kind, last_request,
                   compare_against, alive, unlinked>>
    /\ UNCHANGED <<tvars, pvars, dvars>>

\* proc.communicate() returns, in time or after proc.kill(), and the
\* `finally` of read_output runs with the output
communicate(stdout) ==
    /\ proc # NoProc
    /\ proc' = NoProc
    /\ resolve(proc, stdout, queue, log)
    /\ UNCHANGED <<now, last_refresh, host_async, kind, last_request,
                   compare_against, failed, alive, unlinked>>
    /\ UNCHANGED <<tvars, pvars, dvars>>

\* update_git_time(), called by the commands that use the handler
update_git_time ==
    /\ Callable
    /\ last_refresh # now
    /\ last_refresh' = now
    /\ UNCHANGED <<now, git_temp_file, buf_temp_file, git_tracked, host_async,
                   kind, pc, log, queue, proc, last_request, contents, results,
                   compare_against, failed, alive, unlinked>>
    /\ UNCHANGED <<tvars, pvars, dvars>>

\* a plausible slip: the timestamp is set as update_git_time sets it
clear_git_time_now ==
    /\ last_refresh' = now
    /\ last_request' = None

\* clear_git_time()
clear_git_time ==
    /\ last_refresh' = 0
    /\ last_request' = None

\* the branches, commits and tags to compare against
Commits == {"HEAD", "master"}

\* set_compare_against(commit, refresh): the settings keep the new target;
\* the 'git_gutter' command it may run calls diff() later
set_compare_against(commit) ==
    /\ Callable
    /\ compare_against' = commit
    /\ clear_git_time
    /\ UNCHANGED <<now, git_temp_file, buf_temp_file, git_tracked, host_async,
                   kind, pc, log, queue, proc, contents, results, failed,
                   alive, unlinked>>
    /\ UNCHANGED <<tvars, pvars, dvars>>

\* work_tree(validate)
work_tree(validate) ==
    /\ Callable
    /\ IF ~validate
       THEN UNCHANGED <<view_file_name, git_tree, git_path, last_refresh,
                        last_request>>
       ELSE IF file_name = NoPath \/ ~isfile
       THEN /\ view_file_name' = NoPath
            /\ git_tree' = NoPath
            /\ git_path' = NoPath
            /\ UNCHANGED <<last_refresh, last_request>>
       ELSE IF file_name # view_file_name \/ ~is_work_tree(git_tree)
       THEN /\ view_file_name' = file_name
            /\ git_tree' = split_work_tree(file_name)[1]
            /\ git_path' = split_work_tree(file_name)[2]
            /\ clear_git_time
       ELSE UNCHANGED <<view_file_name, git_tree, git_path, last_refresh,
                        last_request>>
    /\ UNCHANGED <<now, git_temp_file, buf_temp_file, git_tracked, host_async,
                   kind, pc, log, queue, proc, contents, results,
                   compare_against, failed, alive, unlinked>>
    /\ UNCHANGED <<file_name, isfile, markers>>
    /\ UNCHANGED <<pvars, dvars>>

\* os.unlink(file)
unlink(ok) == IF ok THEN "unlinked" ELSE "raised"

\* __del__, run when nothing refers to the handler any more: no callback of
\* read_output is scheduled or running. An OSError of the first os.unlink
\* leaves __del__.
__del__(git_ok, buf_ok) ==
    /\ alive
    /\ queue = <<>>
    /\ proc = NoProc
    /\ alive' = FALSE
    /\ LET git == IF git_temp_file # "none" THEN unlink(git_ok) ELSE "no"
       IN  unlinked' = [git |-> git,
                        buf |-> IF git = "raised" THEN "no"
                                ELSE IF buf_temp_file # "none" THEN unlink(buf_ok)
                                ELSE "no"]
    /\ UNCHANGED <<now, last_refresh, git_temp_file, buf_temp_file, git_tracked,
                   host_async, kind, pc, log, queue, proc, last_request,
                   contents, results, compare_against, failed>>
    /\ UNCHANGED <<tvars, pvars, dvars>>

\* a second passes
Tick ==
    /\ now < StartTime + MaxTicks
    /\ now' = now + 1
    /\ UNCHANGED <<last_refresh, git_temp_file, buf_temp_file, git_tracked,
                   host_async, kind, pc, log, queue, proc, last_request,
                   contents, results, compare_against, failed, alive, unlinked>>
    /\ UNCHANGED <<tvars, pvars, dvars>>

\* ------------------------------------------------- what happens to the file
\* the view is saved under another name
rename(f) ==
    /\ f # file_name
    /\ file_name' = f
    /\ isfile' = TRUE
    /\ UNCHANGED <<markers, view_file_name, git_tree, git_path>>
    /\ UNCHANGED <<hvars, pvars, dvars>>

\* the view's file is deleted, or written again
set_isfile(b) ==
    /\ file_name # NoPath
    /\ isfile # b
    /\ isfile' = b
    /\ UNCHANGED <<file_name, markers, view_file_name, git_tree, git_path>>
    /\ UNCHANGED <<hvars, pvars, dvars>>

\* a '.git' entry appears in a directory, or disappears from it
set_marker(d) ==
    /\ markers' = IF d \in markers THEN markers \ {d} ELSE markers \cup {d}
    /\ UNCHANGED <<file_name, isfile, view_file_name, git_tree, git_path>>
    /\ UNCHANGED <<hvars, pvars, dvars>>

\* The pipeline of a handler as constructed: the diffs do not depend on the
\* file, which stays as it is, nor on the target, which set_compare_against
\* applies anew.
Init == InitHandler /\ UnsavedView /\ IdleParser /\ IdleDecoder

Next ==
    \/ \E r \in Requests : diff(r)
    \/ \E r \in Requests : diff_line_change(r)
    \/ \E ok \in BOOLEAN : Popen(ok)
    \/ \E stdout \in Stdouts : communicate(stdout)
    \/ update_git_time
    \/ set_compare_against("HEAD")
    \/ \E git_ok, buf_ok \in BOOLEAN : __del__(git_ok, buf_ok)
    \/ Tick

Spec == Init /\ [][Next]_vars

\* ------------------------------------------- the binding and the queries
\* The handler of a view whose file is renamed, deleted and moved in and out
\* of repositories, asked for diffs and queries within one second: the
\* binding does not depend on the time, and the cooldown is at its fullest.
InitBinding == InitHandler /\ InitFiles /\ IdleParser /\ IdleDecoder

NextBinding ==
    \/ \E validate \in BOOLEAN : work_tree(validate)
    \/ \E f \in FileNames : rename(f)
    \/ \E b \in BOOLEAN : set_isfile(b)
    \/ \E d \in Dirs : set_marker(d)
    \/ \E r \in BindingRequests : diff(r)
    \/ \E r \in BindingRequests : diff_line_change(r)
    \/ \E r \in BindingRequests, k \in Queries : query(r, k)
    \/ \E ok \in BOOLEAN : Popen(ok)
    \/ \E stdout \in Stdouts : communicate(stdout)
    \/ update_git_time
    \/ \E commit \in Commits : set_compare_against(commit)

SpecBinding == InitBinding /\ [][NextBinding]_vars

\* ------------------------------------------------------- the parser alone
\* a diff text handed to the parser: one printed from hunks, or one holding
\* no hunk header at all
InitParse ==
    /\ InitHandler
    /\ UnsavedView
    /\ IdleDecoder
    /\ host_async
    /\ \/ hunks_in \in HunkInputs
          /\ text \in {DiffText(hunks_in), FormFeedText(hunks_in)}
       \/ hunks_in = <<>> /\ text \in JunkTexts
    /\ ppc = "input"
    /\ line_nr = 0
    /\ wrap = TRUE
    /\ classified = EmptyDiff
    /\ change = NoLineChange

\* process_diff(diff_str)
Classify ==
    /\ ppc = "input"
    /\ ppc' = "classified"
    /\ classified' = process_diff(text)
    /\ UNCHANGED <<hunks_in, text, line_nr, wrap, change>>
    /\ UNCHANGED <<hvars, tvars, dvars>>

\* process_diff_line_change(line_nr, diff_str)
Query(l, w) ==
    /\ ppc = "input"
    /\ ppc' = "queried"
    /\ line_nr' = l
    /\ wrap' = w
    /\ change' = process_diff_line_change(l, text, w)
    /\ UNCHANGED <<hunks_in, text, classified>>
    /\ UNCHANGED <<hvars, tvars, dvars>>

NextParse ==
    \/ Classify
    \/ \E l \in QueryLines(hunks_in), w \in BOOLEAN : Query(l, w)

SpecParse == InitParse /\ [][NextParse]_vars

\* ------------------------------------------------------ the decoder alone
\* The bytes of an output: 'a', and three that are no character on their
\* own in UTF-8, of which C3 A9 and C3 81 are one character each; 81 is also
\* undefined in Windows 1252.
ByteValues == {"61", "C3", "A9", "81"}

\* the encodings Sublime Text reports for a view
ViewEncodings == {"UTF-8", "Western (Windows 1252)", "Western (ISO 8859-1)",
                  "Hexadecimal"}

\* _get_view_encoding() of a view without 'origin_encoding': the text in
\* parentheses if there is one, 'Windows' made 'cp', '-' made '_', spaces
\* removed
_get_view_encoding(view_encoding) ==
    CASE view_encoding = "UTF-8" -> "UTF_8"
      [] view_encoding = "Western (Windows 1252)" -> "cp1252"
      [] view_encoding = "Western (ISO 8859-1)" -> "ISO8859_1"
      [] OTHER -> view_encoding

\* the codecs Python finds under the names used here; any other name raises
\* LookupError
Codecs == {"UTF_8", "utf-8", "cp1252", "ISO8859_1"}

\* what a decoding gives: the text, or the exception raised
Text(chars) == [error |-> "none", text |-> chars]

Raise(exception) == [error |-> exception, text |-> <<>>]

\* the bytes decoded as UTF-8
RECURSIVE utf_8_decode(_)
utf_8_decode(bs) ==
    IF bs = <<>> THEN Text(<<>>)
    ELSE IF bs[1] = "61"
    THEN LET rest == utf_8_decode(Tail(bs))
         IN  IF rest.error # "none" THEN rest ELSE Text(<<"a">> \o rest.text)
    ELSE IF bs[1] = "C3" /\ Len(bs) >= 2 /\ bs[2] \in {"A9", "81"}
    THEN LET rest == utf_8_decode(SubSeq(bs, 3, Len(bs)))
         IN  IF rest.error # "none" THEN rest
             ELSE Text(<<IF bs[2] = "A9" THEN "U+00E9" ELSE "U+00C1">> \o rest.text)
    ELSE Raise("UnicodeDecodeError")

\* the bytes decoded one byte a character; 81 is undefined in cp1252
charmap_decode(bs, codec) ==
    IF codec = "cp1252" /\ \E i \in 1..Len(bs) : bs[i] = "81"
    THEN Raise("UnicodeDecodeError")
    ELSE Text([i \in 1..Len(bs) |-> IF bs[i] = "61" THEN "a" ELSE "U+00" \o bs[i]])

\* results.decode(codec)
bytes_decode(bs, codec) ==
    IF codec \notin Codecs THEN Raise("LookupError")
    ELSE IF codec \in {"UTF_8", "utf-8"} THEN utf_8_decode(bs)
    ELSE charmap_decode(bs, codec)

\* codecs.decode(results): the default encoding is 'utf-8', errors 'strict'
codecs_decode(bs) == utf_8_decode(bs)

\* decode_diff(results): the decodings tried and the text returned;
\* UnicodeDecodeError is a UnicodeError, LookupError is not
decode_diff(bs, view_encoding) ==
    LET first == bytes_decode(bs, _get_view_encoding(view_encoding))
        second == IF first.error = "LookupError" THEN codecs_decode(bs)
                  ELSE bytes_decode(bs, "utf-8")
    IN  IF first.error = "none" THEN [tried |-> <<"view">>, text |-> first.text]
        ELSE [tried |-> <<"view", IF first.error = "LookupError" THEN "default"
                                  ELSE "utf-8">>,
              text |-> IF second.error = "UnicodeDecodeError" THEN <<>>
                       ELSE second.text]

\* an output of `git diff` and the encoding of the view
InitDecode ==
    /\ InitHandler
    /\ UnsavedView
    /\ IdleParser
    /\ host_async
    /\ encoding \in ViewEncodings
    /\ bytes \in SeqsUpTo(ByteValues, MaxBytes)
    /\ dpc = "input"
    /\ tried = <<>>
    /\ decoded = <<>>

\* decode_diff(results)
Decode ==
    /\ dpc = "input"
    /\ dpc' = "decoded"
    /\ tried' = decode_diff(bytes, encoding).tried
    /\ decoded' = decode_diff(bytes, encoding).text
    /\ UNCHANGED <<encoding, bytes>>
    /\ UNCHANGED <<hvars, tvars, pvars>>

NextDecode == Decode

SpecDecode == InitDecode /\ [][NextDecode]_vars

\* ================================================================ the claims
\* the example of the navigation claims: hunks at new-start lines 5, 20, 40
Hunks_5_20_40 == <<Mod(5), Mod(20), Mod(40)>>

\* C1: two update_git_file calls less than git_file_update_interval_secs
\* apart, with no clear_git_time between them, run `git show` once: the
\* second one returns a resolved Promise and spawns nothing.
C1_Cooldown ==
    [][\A r \in Requests :
          (/\ pc[r] = "new"
           /\ pc'[r] # "new"
           /\ last_request # None
           /\ now - last_request < git_file_update_interval_secs)
          => pc'[r] # "refresh"]_vars

\* C2: at most one reference-snapshot fetch is outstanding at any time: no
\* request starts a `git show` while the write_file of another has not run.
C2_OneRefreshInFlight == Cardinality({r \in Requests : pc[r] = "refresh"}) <= 1

\* every occurrence of step b in the log l comes after an occurrence of a
\* step of the set as
After(l, as, b) ==
    \A j \in 1..Len(l) : l[j] = b => \E i \in 1..(j - 1) : l[i] \in as

Logged(l, a) == \E i \in 1..Len(l) : l[i] = a

RECURSIVE RuleClassify(_)
RuleClassify(hs) ==
    IF hs = <<>> THEN EmptyDiff
    ELSE LET h == hs[Len(hs)]
             rest == RuleClassify(SubSeq(hs, 1, Len(hs) - 1))
             span == [i \in 1..Count(h.nc) |-> h.ns + i - 1]
         IN  IF Count(h.oc) = 0 THEN [rest EXCEPT !.inserted = @ \o span]
             ELSE IF Count(h.nc) = 0 THEN [rest EXCEPT !.deleted = @ \o <<h.ns + 1>>]
             ELSE [rest EXCEPT !.modified = @ \o span]

\* C4: process_diff agrees with the reference rule on every sequence of hunk
\* headers, an omitted count being 1: oldCount = 0 gives inserted lines
\* newStart..newStart+newCount-1, else newCount = 0 gives the deleted line
\* newStart+1, else modified lines newStart..newStart+newCount-1, in text order.
C4_ClassifyRule ==
    ppc = "classified" => classified = RuleClassify(hunks_in)

\* '@@ -9 +10,2 @@' classified as modified [10, 11] and nothing else
C4_Witness ==
    /\ ppc = "classified"
    /\ hunks_in = <<[os |-> 9, oc |-> None, ns |-> 10, nc |-> 2]>>
    /\ classified = [inserted |-> <<>>, modified |-> <<10, 11>>, deleted |-> <<>>]

\* the last line before a hunk and the last line of it, on either side
BeforeHunk(start, count) == IF count = 0 THEN start ELSE start - 1

EndOfHunk(start, count) == IF count = 0 THEN start ELSE start + count - 1

\* a well-formed zero-context diff: no empty hunk, hunks ascending and kept
\* apart by at least one unchanged line, the same unchanged lines on both sides
WellFormed(hs) ==
    /\ \A i \in 1..Len(hs) :
          /\ Count(hs[i].oc) + Count(hs[i].nc) > 0
          /\ BeforeHunk(hs[i].os, Count(hs[i].oc)) >= 0
    /\ Len(hs) > 0 =>
          BeforeHunk(hs[1].os, Count(hs[1].oc)) = BeforeHunk(hs[1].ns, Count(hs[1].nc))
    /\ \A i \in 2..Len(hs) :
          LET gap == BeforeHunk(hs[i].os, Count(hs[i].oc))
                     - EndOfHunk(hs[i - 1].os, Count(hs[i - 1].oc))
          IN  /\ gap >= 1
              /\ BeforeHunk(hs[i].ns, Count(hs[i].nc))
                 - EndOfHunk(hs[i - 1].ns, Count(hs[i - 1].nc)) = gap

Elems(q) == {q[i] : i \in 1..Len(q)}

\* the lines a hunk is shown at
Footprint(h) ==
    IF Count(h.nc) = 0 THEN {h.ns + 1} ELSE h.ns..(h.ns + Count(h.nc) - 1)

\* C5: for a well-formed zero-context diff the inserted, modified and deleted
\* lines are pairwise disjoint and every hunk contributes its lines to exactly
\* one of the three.
C5_Disjoint ==
    (ppc = "classified" /\ WellFormed(hunks_in)) =>
        LET ins == Elems(classified.inserted)
            mod == Elems(classified.modified)
            del == Elems(classified.deleted)
        IN  /\ ins \cap mod = {}
            /\ ins \cap del = {}
            /\ mod \cap del = {}
            /\ \A i \in 1..Len(hunks_in) :
                  Cardinality({S \in {ins, mod, del} :
                                  S \cap Footprint(hunks_in[i]) # {}}) = 1
            /\ \A i \in 1..Len(hunks_in) :
                  \E S \in {ins, mod, del} : Footprint(hunks_in[i]) \subseteq S

\* a well-formed diff of three hunks, one of each class
C5_Witness ==
    /\ ppc = "classified"
    /\ WellFormed(hunks_in)
    /\ Len(hunks_in) = 3
    /\ classified.inserted # <<>>
    /\ classified.modified # <<>>
    /\ classified.deleted # <<>>

\* the match criterion of the point query as the claim states it
Encloses(h, l) ==
    \/ Count(h.nc) = 0 /\ l = h.ns + 1
    \/ h.ns <= l /\ l < h.ns + Count(h.nc)

\* C6: the point query returns the first hunk in text order that is a pure
\* deletion with L = newStart+1 or has newStart <= L < newStart+size, and
\* start -1 with no deleted lines if there is none; for '@@ -7,2 +6,0 @@'
\* line 7 matches and line 6 does not.
C6_MatchCriterion ==
    ppc = "queried" =>
        LET hits == {i \in 1..Len(hunks_in) : Encloses(hunks_in[i], line_nr)}
        IN  IF hits = {}
            THEN change.start = -1 /\ change.deleted_lines = <<>>
            ELSE LET i == CHOOSE k \in hits : \A j \in hits : k <= j
                 IN  /\ change.hunk = i
                     /\ change.start = hunks_in[i].ns
                     /\ change.size = Count(hunks_in[i].nc)

\* C7: with wrap enabled, a point query that matches hunk i of n has
\* prev_change = start of hunk i-1, or of the last hunk if i is the first, and
\* next_change = start of hunk i+1, or first_change, the start of the first
\* hunk, if i is the last; for starts [5, 20, 40] a query in the hunk at 5
\* gives prev_change 40 and one in the hunk at 40 gives next_change 5.
C7_WrapNavigation ==
    (ppc = "queried" /\ wrap /\ change.hunk > 0) =>
        LET i == change.hunk
            n == Len(hunks_in)
        IN  /\ change.first_change = hunks_in[1].ns
            /\ change.prev_change = IF i > 1 THEN hunks_in[i - 1].ns
                                    ELSE hunks_in[n].ns
            /\ change.next_change = IF i < n THEN hunks_in[i + 1].ns
                                    ELSE change.first_change
            /\ (hunks_in = Hunks_5_20_40 /\ line_nr = 5) => change.prev_change = 40
            /\ (hunks_in = Hunks_5_20_40 /\ line_nr = 40) => change.next_change = 5

\* the query in the hunk at 5 of [5, 20, 40] wrapped back to the hunk at 40
C7_Witness ==
    /\ ppc = "queried"
    /\ wrap
    /\ hunks_in = Hunks_5_20_40
    /\ line_nr = 5
    /\ change.hunk = 1
    /\ change.prev_change = 40

\* C8 as stated: with wrap disabled and hunks at [5, 20, 40], a query on a
\* line inside the hunk at 5 yields prev_change = 5 and next_change = 5.
C8_NoWrapNoMovement ==
    (ppc = "queried" /\ ~wrap /\ hunks_in = Hunks_5_20_40 /\ line_nr = 5) =>
        change.prev_change = 5 /\ change.next_change = 5

\* C8 amended: with wrap disabled and hunks at [5, 20, 40], a query on a line
\* inside the hunk at 5 yields prev_change = 5, its own start as no hunk
\* precedes it, and next_change = 20, the start of the following hunk.
C8_NoWrapAmended ==
    (ppc = "queried" /\ ~wrap /\ hunks_in = Hunks_5_20_40 /\ line_nr = 5) =>
        /\ change.start = 5
        /\ change.prev_change = 5
        /\ change.next_change = 20

C8_Witness ==
    /\ ppc = "queried"
    /\ ~wrap
    /\ hunks_in = Hunks_5_20_40
    /\ line_nr = 5
    /\ change.hunk = 1

Hunk_3_2_4_0 == <<[os |-> 3, oc |-> 2, ns |-> 4, nc |-> 0]>>

\* C9 as stated: process_diff on the single header '@@ -3,2 +4,0 @@' returns
\* one deleted entry, at line 4, and no inserted or modified lines.
C9_DeletedAtStart ==
    (ppc = "classified" /\ hunks_in = Hunk_3_2_4_0) =>
        classified = [inserted |-> <<>>, modified |-> <<>>, deleted |-> <<4>>]

\* C9 amended: process_diff on the single header '@@ -3,2 +4,0 @@' returns
\* one deleted entry, at line 5 (newStart + 1), and no inserted or modified
\* lines.
C9_DeletedBelowStart ==
    (ppc = "classified" /\ hunks_in = Hunk_3_2_4_0) =>
        classified = [inserted |-> <<>>, modified |-> <<>>, deleted |-> <<5>>]

C9_Witness ==
    /\ ppc = "classified"
    /\ hunks_in = Hunk_3_2_4_0
    /\ Len(classified.deleted) = 1

\* C10: on a text with no line matching the hunk-header grammar (the empty
\* text, malformed headers) process_diff returns three empty sequences and
\* process_diff_line_change returns ([], -1, -1, {}) for every line.
C10_NoHunks ==
    hunks_in = <<>> =>
        /\ ppc = "classified" => classified = EmptyDiff
        /\ ppc = "queried" => change = NoLineChange

\* a point query on a text whose only lines are near-misses of a header
C10_Witness ==
    /\ ppc = "queried"
    /\ hunks_in = <<>>
    /\ Len(text) = 2
    /\ \A i \in 1..2 : Len(text[i]) >= 8 /\ SubSeq(text[i], 1, 4) = <<"@", "@", " ", "-">>

\* the requests whose `git show` has completed: write_file ran
Fetched == {r \in Requests : Logged(log[r], "write_file")}

\* the latest of a set of requests
Latest(rs) == CHOOSE r \in rs : \A q \in rs : q <= r

\* the step in which the scheduled callback of `job` runs and Popen raises
\* OSError
SpawnFails(job) ==
    /\ queue # <<>>
    /\ Head(queue) = job
    /\ ~has_none(job.cmd)
    /\ proc = NoProc
    /\ proc' = NoProc
    /\ failed'
    /\ Len(log'[job.req]) > Len(log[job.req])

\* the jobs a callback can be scheduled for
Jobs == [req : Requests, cmd : {"show", "diff", "ls-files", "log", "log -- path"}]

\* C11: once a `git show` has completed, in_repo() tells whether the fetch
\* issued last among the completed ones returned any content; a fetch that
\* fails to spawn makes it false, and a refresh skipped by the cooldown
\* leaves it as it is.
C11_Tracked ==
    /\ [](Fetched # {} =>
            /\ contents.req = Latest(Fetched)
            /\ git_tracked = (contents.value = "data"))
    /\ [][/\ \A job \in Jobs :
                job.cmd = "show" /\ SpawnFails(job) => ~git_tracked'
          /\ \A r \in Requests :
                pc[r] = "new" /\ pc'[r] = "diffing" => git_tracked' = git_tracked
         ]_vars

\* a fetch that returned content, then a later one that returned nothing
C11_Witness ==
    /\ contents = [req |-> 2, value |-> "empty"]
    /\ Logged(log[1], "write_file")
    /\ pc[1] = "done"
    /\ ~git_tracked

\* C12: the cached relative path is defined if and only if the cached work
\* tree is, whatever sequence of work_tree calls, renames, deletions and
\* changes of the '.git' entries has happened.
C12_PathIffTree == (git_path # NoPath) <=> (git_tree # NoPath)

\* the file was bound to its work tree, then deleted and the '.git' entry
\* removed, with no validation since
C12_Witness ==
    /\ git_tree = <<"/", "r">>
    /\ git_path = <<"s", "f">>
    /\ ~isfile
    /\ markers = {}

\* C13: an operation called while no work tree is bound resolves at once and
\* schedules no process.
C13_ShortCircuit ==
    [][\A r \in Requests :
          (pc[r] = "new" /\ pc'[r] # "new" /\ git_tree = NoPath /\ git_path = NoPath)
          => (pc'[r] = "done" /\ queue' = queue)]_vars

\* C14: when Popen raises OSError the Promise of run_command is resolved with
\* an empty value and its continuations run: write_file for `git show`, which
\* goes on to the diff; decode_diff and the parser for `git diff`; the
\* caller's continuation for a query.
C14_SpawnFailure ==
    [][\A job \in Jobs :
          SpawnFails(job) =>
             LET r == job.req
                 l == log'[r]
             IN  IF job.cmd = "show"
                 THEN /\ contents' = [req |-> r, value |-> "empty"]
                      /\ Logged(l, "write_file")
                      /\ pc'[r] = "diffing"
                      /\ queue'[Len(queue')] = [req |-> r, cmd |-> "diff"]
                 ELSE /\ results' = "empty"
                      /\ pc'[r] = "done"
                      /\ l[Len(l)] \in {"process_diff", "process_diff_line_change",
                                        "resolved"}]_vars

\* git could not be run for a query, which resolved with the empty string
C14_Witness ==
    /\ failed
    /\ kind[1] = "git_commits"
    /\ pc[1] = "done"
    /\ results = "empty"
    /\ log[1] = <<"run_command", "popen_log", "resolved">>

\* C15: every Promise of run_command is resolved whatever the process does:
\* once the worker has run every callback scheduled, no request whose
\* command Popen was given proper arguments for is pending.
C15_AllResolved ==
    (queue = <<>> /\ proc = NoProc) =>
        \A r \in Requests :
            \/ pc[r] \in {"new", "done"}
            \/ Logged(log[r], "popen_log -- None")

\* C16: __del__ unlinks every snapshot that was created, the buffer's also
\* when unlinking the reference's failed, and none that was not created.
C16_Teardown ==
    ~alive =>
        /\ (git_temp_file = "none") <=> (unlinked.git = "no")
        /\ (buf_temp_file = "none") <=> (unlinked.buf = "no")

\* the step in which work_tree(validate=True) binds the view's file anew
Rebinds ==
    /\ view_file_name' # NoPath
    /\ view_file_name' # view_file_name \/ git_tree' # git_tree

\* C17: a rename or a lost work tree found by work_tree(validate=True), and
\* set_compare_against, clear the timestamp, and an update_git_file called
\* while it is cleared runs `git show`.
C17_ClearForcesShow ==
    [][/\ Rebinds => last_refresh' = 0
       /\ compare_against' # compare_against => last_refresh' = 0
       /\ \A r \in Requests :
             (pc[r] = "new" /\ pc'[r] \in {"refresh", "diffing"} /\ last_refresh = 0)
             => pc'[r] = "refresh"]_vars

\* update_git_time() started the cooldown, the file was renamed, work_tree
\* found it, and the diff called in the same second fetched the reference
C17_Witness ==
    /\ last_request = now
    /\ last_refresh = 0
    /\ view_file_name = <<"/", "r", ".git", "h">>
    /\ pc[1] = "refresh"

\* C18: decode_diff tries the view's encoding, then UTF-8, then the default
\* decode, stopping at the first that succeeds, and returns the empty string
\* for an output that is not empty only when all three have failed.
C18_DecodeOrder ==
    dpc = "decoded" =>
        /\ tried = SubSeq(<<"view", "utf-8", "default">>, 1, Len(tried))
        /\ (decoded = <<>> /\ bytes # <<>>) => Len(tried) = 3

\* the lines of the text that are headers, in order
RECURSIVE Headers(_, _)
Headers(lines, i) ==
    IF i > Len(lines) THEN <<>>
    ELSE (IF IsHeader(lines[i]) THEN <<i>> ELSE <<>>) \o Headers(lines, i + 1)

\* the body of the k-th hunk: the lines after its header up to the next
\* header, or to the end of the text
BodyOf(lines, k) ==
    LET hs == Headers(lines, 1)
    IN  SubSeq(lines, hs[k] + 1, IF k < Len(hs) THEN hs[k + 1] - 1 ELSE Len(lines))

\* the lines that start with the prefix, in order, without it
RECURSIVE Prefixed(_, _)
Prefixed(lines, prefix) ==
    IF lines = <<>> THEN <<>>
    ELSE (IF Head(lines) # <<>> /\ Head(lines)[1] = prefix
          THEN <<Tail(Head(lines))>> ELSE <<>>)
         \o Prefixed(Tail(lines), prefix)

\* C19: the deleted lines of a matched query are the lines of the matched
\* hunk's body that start with '-', without the prefix and in order, the
\* added lines those that start with '+'.
C19_BodyLines ==
    (ppc = "queried" /\ change.hunk # 0) =>
        /\ change.deleted_lines = Prefixed(BodyOf(text, change.hunk), "-")
        /\ change.added_lines = Prefixed(BodyOf(text, change.hunk), "+")

\* the hunks' new starts never decrease
Ascending(hs) == \A i \in 1..Len(hs), j \in 1..Len(hs) : i < j => hs[i].ns <= hs[j].ns

\* C20: with wrap disabled and ascending hunk starts, a matched query has
\* prev_change <= start <= next_change, prev_change being the start of the
\* hunk before the matched one and next_change that of the hunk after it,
\* each the matched hunk's own start where there is no such hunk.
C20_NoWrapOrder ==
    (ppc = "queried" /\ ~wrap /\ change.hunk # 0 /\ Ascending(hunks_in)) =>
        LET k == change.hunk
            start == hunks_in[k].ns
        IN  /\ change.prev_change = IF k > 1 THEN hunks_in[k - 1].ns ELSE start
            /\ change.next_change = IF k < Len(hunks_in) THEN hunks_in[k + 1].ns
                                    ELSE start
            /\ change.prev_change <= start
            /\ start <= change.next_change

\* the last of three hunks, with wrap disabled
C20_Witness ==
    /\ ppc = "queried"
    /\ ~wrap
    /\ hunks_in = Hunks_5_20_40
    /\ line_nr = 40
    /\ change.prev_change = 20
    /\ change.next_change = 40

\* the `git diff` commands scheduled or running
DiffJobs ==
    {queue[i] : i \in {j \in 1..Len(queue) : queue[j].cmd = "diff"}}
    \cup (IF proc.cmd = "diff" THEN {proc} ELSE {})

\* C21: whenever `git diff` is scheduled or running, both snapshots have been
\* created by this handler, so neither path is None in its arguments, where
\* filter(None, args) would drop it.
C21_BothSnapshots ==
    DiffJobs # {} => (git_temp_file # "none" /\ buf_temp_file # "none")

====
